---- MODULE Spec2Model ----
(***************************************************************************)
(* Model of package batchio (src/batchio/writer.go): the blocking          *)
(* coalescer Writer and the non-blocking coalescer DeadlineBufWriter, each *)
(* with its background flusher goroutine, in front of an io.Writer sink.   *)
(*                                                                         *)
(* One instance is modelled at a time; variant says which type it is       *)
(* ("B" for Writer, "D" for DeadlineBufWriter).  The Write calls are       *)
(* numbered in the order they are made, each runs in a goroutine of its    *)
(* own, and at most NWriters of them are in progress at a time; pc[w] is   *)
(* "idle" before call w is made and after it has returned, cur[w] holds    *)
(* its locals in between.  The buffer is the sequence of the lengths of    *)
(* the payloads it holds, so that len(w.buffer) is BufLen(buffer).         *)
(*                                                                         *)
(* Processes: the Write calls (Calls), one caller of Close (C), and the    *)
(* flusher goroutine (F).  The buffer mutex is modelled by its holder.     *)
(* The mutex of the condition variable, condM, is never held across a      *)
(* blocking operation other than Wait, which releases it: each of its      *)
(* critical sections is one step.  Every call of the sink's Write takes    *)
(* two steps (entered, returned), so that a sink write in flight is a      *)
(* state of the model; fl[p] is the slice process p has passed to the sink *)
(* call it is in.                                                          *)
(*                                                                         *)
(* ret and flush are the outputs of the step just taken: ret is the return *)
(* of a Write call, flush the completion of a sink call, and each is       *)
(* NoRet or NoFlush after a step that made none.                           *)
(*                                                                         *)
(* History, kept for the properties only: inbuf is the set of calls in     *)
(* progress whose payload is in the buffer, carried[p] the set of those    *)
(* whose payload is in the slice p has passed, okFlushed the set of those  *)
(* whose payload a successful sink write has carried; nsent is the number  *)
(* of leading payloads of the buffer that have been passed to the sink,    *)
(* resent says that some payload was passed a second time; sinkSeen is the *)
(* set of the kinds of results the sink has returned, nSink the number of  *)
(* sink Write calls; windowOpen says that the first coalescing window has  *)
(* not ended, nbytes is the number of bytes appended, counted as MaxSize   *)
(* once it reaches MaxSize or a Write fell outside that window; slept says *)
(* that the blocking flusher's current cycle has slept; owed is the set of *)
(* the numbers of the operations that were the next to be entered when a   *)
(* non-blocking Write returned (len(p), nil) without flushing and no other *)
(* call was in progress, with 0 in the place of its number once that       *)
(* operation is Close.                                                     *)
(***************************************************************************)
EXTENDS Integers, Sequences, FiniteSets, TLC

\* ---------------------------------------------------------------- bounds
NWriters == 2
MaxCalls == 2

\* ------------------------------------------------------------ parameters
MaxSize == 3

Calls == 1..MaxCalls
F == 0
C == MaxCalls + 1
Free == 0 - 1
Procs == 0..(MaxCalls + 1)
Sizes == {1, MaxSize}

Nil == "nil"
SinkErr == "Neh"
ErrShortWrite == "short write"

VARIABLES
  variant, buffer, mutex, notify, notifyClosed, quit, err, waiters,
  errors, pc, cur, ncalls, pcF, sizeF, errF, pcC, closeRet, sinkClosed,
  fl, ret, flush, inbuf, carried, okFlushed, nsent, resent, sinkSeen,
  nSink, nbytes, slept, windowOpen, owed

vars == <<variant, buffer, mutex, notify, notifyClosed, quit, err, waiters,
          errors, pc, cur, ncalls, pcF, sizeF, errF, pcC, closeRet, sinkClosed,
          fl, ret, flush, inbuf, carried, okFlushed, nsent, resent, sinkSeen,
          nSink, nbytes, slept, windowOpen, owed>>

\* --------------------------------------------------------------- helpers
RECURSIVE BufLen(_)
BufLen(b) == IF b = <<>> THEN 0 ELSE Head(b) + BufLen(Tail(b))

Min(a, b) == IF a < b THEN a ELSE b

\* The Write calls in progress.
Active == {c \in Calls : pc[c] # "idle"}

\* A send on a closed channel panics; an unrecovered panic ends the program.
Alive == \A w \in Calls : pc[w] # "panic"

\* The sink, an io.Writer: what one Write(p) call with len(p) = n may return
\* (n bytes and no error; an error with no or all bytes taken; fewer bytes
\* and no error).
SinkOutcomes(n) ==
  IF n = 0 THEN {[n |-> 0, e |-> Nil], [n |-> 0, e |-> SinkErr]}
  ELSE {[n |-> n, e |-> Nil], [n |-> 0, e |-> SinkErr],
        [n |-> n, e |-> SinkErr], [n |-> 0, e |-> Nil]}

OutcomeKind(o, n) ==
  IF o.e # Nil THEN "err" ELSE IF o.n < n THEN "short" ELSE "ok"

SinkCloseOutcomes == {Nil, SinkErr}

NoCall == [s |-> 0, seen |-> 0]
NoFlush == [p |-> Free, len |-> 0, n |-> 0, e |-> Nil, ret |-> Nil]
NoRet == [done |-> FALSE, id |-> 0, s |-> 0, n |-> 0, e |-> Nil,
          flushed |-> FALSE, inline |-> FALSE, seen |-> 0, ferr |-> Nil]

\* w.buffer = append(w.buffer, p...) by call w.
AppendPayload(w, inWindow) ==
  /\ buffer' = Append(buffer, cur[w].s)
  /\ inbuf' = inbuf \cup {w}
  /\ nbytes' = IF inWindow THEN Min(nbytes + cur[w].s, MaxSize) ELSE MaxSize

\* w.writer.Write(w.buffer) is entered by process p.
SinkCall(p) ==
  /\ fl' = [fl EXCEPT ![p] = buffer]
  /\ carried' = [carried EXCEPT ![p] = inbuf]
  /\ nSink' = nSink + 1
  /\ resent' = (resent \/ nsent > 0)
  /\ nsent' = Len(buffer)

\* The calls in progress whose payload a successful sink write has carried,
\* after process p's sink call returned o.
OkFlushedAfter(p, o) ==
  IF OutcomeKind(o, BufLen(fl[p])) = "ok"
    THEN okFlushed \cup carried[p]
    ELSE okFlushed

\* w.writer.Write returns o to process p, which makes r of it and truncates
\* the buffer (w.buffer = w.buffer[0:0]) if clears; the calls in gone return
\* in the same step.
SinkReturn(p, o, r, clears, gone) ==
  /\ flush' = [p |-> p, len |-> BufLen(fl[p]), n |-> o.n, e |-> o.e,
               ret |-> r]
  /\ fl' = [fl EXCEPT ![p] = <<>>]
  /\ sinkSeen' = sinkSeen \cup {OutcomeKind(o, BufLen(fl[p]))}
  /\ okFlushed' = OkFlushedAfter(p, o) \ gone
  /\ carried' = [q \in Procs |-> IF q = p THEN {} ELSE carried[q] \ gone]
  /\ buffer' = IF clears THEN <<>> ELSE buffer
  /\ inbuf' = IF clears THEN {} ELSE inbuf \ gone
  /\ nsent' = IF clears THEN 0 ELSE nsent

\* Call w returns without a sink call in the same step.
Forget(w) ==
  /\ okFlushed' = okFlushed \ {w}
  /\ inbuf' = inbuf \ {w}
  /\ carried' = [q \in Procs |-> carried[q] \ {w}]

Init ==
  /\ variant \in {"B", "D"}
  /\ buffer = <<>>
  /\ mutex = Free
  /\ notify = 0
  /\ notifyClosed = FALSE
  /\ quit = FALSE
  /\ err = Nil
  /\ waiters = {}
  /\ errors = Nil
  /\ pc = [w \in Calls |-> "idle"]
  /\ cur = [w \in Calls |-> NoCall]
  /\ ncalls = 0
  /\ pcF = "select"
  /\ sizeF = 0
  /\ errF = Nil
  /\ pcC = "idle"
  /\ closeRet = Nil
  /\ sinkClosed = FALSE
  /\ fl = [p \in Procs |-> <<>>]
  /\ ret = NoRet
  /\ flush = NoFlush
  /\ inbuf = {}
  /\ carried = [p \in Procs |-> {}]
  /\ okFlushed = {}
  /\ nsent = 0
  /\ resent = FALSE
  /\ sinkSeen = {}
  /\ nSink = 0
  /\ nbytes = 0
  /\ slept = FALSE
  /\ windowOpen = TRUE
  /\ owed = {}

\* A caller enters Write with a payload of s bytes (either variant): call
\* w is the next one, and fewer than NWriters calls are in progress.  No
\* Write is started once Close has been called.
CanCall(w) ==
  /\ Alive
  /\ w = ncalls + 1 /\ pc[w] = "idle" /\ pcC = "idle"
  /\ Cardinality(Active) < NWriters

NewCall(w, s) ==
  /\ ncalls' = ncalls + 1
  /\ cur' = [cur EXCEPT ![w] = [s |-> s, seen |-> 0]]

\* if err != nil { return 0, err }; return len(p), nil
WriteResult(e, n) ==
  IF e # Nil THEN [n |-> 0, e |-> e] ELSE [n |-> n, e |-> Nil]

\* Write returns to caller w: e is the error it found, fd whether a
\* successful sink write has carried its payload, inl whether it flushed
\* inline, sn the buffer length its threshold test saw.
Returned(w, e, fd, inl, sn) ==
  LET r == WriteResult(e, cur[w].s)
  IN  [done |-> TRUE, id |-> w, s |-> cur[w].s, n |-> r.n, e |-> r.e,
       flushed |-> fd, inline |-> inl, seen |-> sn, ferr |-> e]

\* The non-blocking send on the single-slot trigger channel:
\*   select { case w.notify <- struct{}{}: default: }
TrySend(n) == 1

\* =================================================== blocking coalescer
WriterWrite_Call(w, s) ==
  /\ variant = "B"
  /\ CanCall(w)
  /\ NewCall(w, s)
  /\ pc' = [pc EXCEPT ![w] = "append"]
  /\ ret' = NoRet
  /\ flush' = NoFlush
  /\ UNCHANGED <<variant, buffer, mutex, notify, notifyClosed, quit, err,
                 waiters, errors, pcF, sizeF, errF, pcC, closeRet,
                 sinkClosed, fl, inbuf, carried, okFlushed, nsent, resent,
                 sinkSeen, nSink, nbytes, slept, windowOpen, owed>>

\* w.mutex.Lock(); w.buffer = append(w.buffer, p...); w.mutex.Unlock()
WriterWrite_Append(w) ==
  /\ Alive /\ variant = "B"
  /\ pc[w] = "append" /\ mutex = Free
  /\ AppendPayload(w, windowOpen)
  /\ pc' = [pc EXCEPT ![w] = "signal"]
  /\ ret' = NoRet
  /\ flush' = NoFlush
  /\ UNCHANGED <<variant, mutex, notify, notifyClosed, quit, err, waiters,
                 errors, cur, ncalls, pcF, sizeF, errF, pcC, closeRet,
                 sinkClosed, fl, carried, okFlushed, nsent, resent,
                 sinkSeen, nSink, slept, windowOpen, owed>>

\* w.condM.Lock(); select { case w.notify <- struct{}{}: default: };
\* w.cond.Wait(), which releases condM and parks the caller.
WriterWrite_Wait(w) ==
  /\ Alive /\ variant = "B"
  /\ pc[w] = "signal"
  /\ notify' = TrySend(notify)
  /\ waiters' = waiters \cup {w}
  /\ pc' = [pc EXCEPT ![w] = "parked"]
  /\ ret' = NoRet
  /\ flush' = NoFlush
  /\ UNCHANGED <<variant, buffer, mutex, notifyClosed, quit, err, errors,
                 cur, ncalls, pcF, sizeF, errF, pcC, closeRet, sinkClosed,
                 fl, inbuf, carried, okFlushed, nsent, resent, sinkSeen,
                 nSink, nbytes, slept, windowOpen, owed>>

\* Woken by Broadcast: Wait re-acquires condM; err = w.err;
\* w.condM.Unlock(); return.
WriterWrite_Return(w) ==
  /\ Alive /\ variant = "B"
  /\ pc[w] = "woken"
  /\ ret' = Returned(w, err, w \in okFlushed, FALSE, 0)
  /\ Forget(w)
  /\ cur' = [cur EXCEPT ![w] = NoCall]
  /\ pc' = [pc EXCEPT ![w] = "idle"]
  /\ flush' = NoFlush
  /\ UNCHANGED <<variant, buffer, mutex, notify, notifyClosed, quit, err,
                 waiters, errors, ncalls, pcF, sizeF, errF, pcC, closeRet,
                 sinkClosed, fl, nsent, resent, sinkSeen, nSink, nbytes,
                 slept, windowOpen, owed>>

\* Writer.Close: close(w.quit), then wc.Close() on the sink, whose result
\* Close returns.
WriterClose ==
  /\ Alive /\ variant = "B"
  /\ pcC = "idle"
  /\ quit' = TRUE
  /\ sinkClosed' = TRUE
  /\ closeRet' \in SinkCloseOutcomes
  /\ pcC' = "closed"
  /\ ret' = NoRet
  /\ flush' = NoFlush
  /\ UNCHANGED <<variant, buffer, mutex, notify, notifyClosed, err,
                 waiters, errors, pc, cur, ncalls, pcF, sizeF, errF, fl,
                 inbuf, carried, okFlushed, nsent, resent, sinkSeen, nSink,
                 nbytes, slept, windowOpen, owed>>

\* Writer.flusher: select { case <-w.quit: return; case <-w.notify: ... }
\* When both are ready, select takes either.
WriterFlusher_Quit ==
  /\ Alive /\ variant = "B"
  /\ pcF = "select" /\ quit
  /\ pcF' = "exit"
  /\ ret' = NoRet
  /\ flush' = NoFlush
  /\ UNCHANGED <<variant, buffer, mutex, notify, notifyClosed, quit, err,
                 waiters, errors, pc, cur, ncalls, sizeF, errF, pcC,
                 closeRet, sinkClosed, fl, inbuf, carried, okFlushed,
                 nsent, resent, sinkSeen, nSink, nbytes, slept, windowOpen,
                 owed>>

WriterFlusher_Recv ==
  /\ Alive /\ variant = "B"
  /\ pcF = "select" /\ notify = 1
  /\ notify' = 0
  /\ pcF' = "check"
  /\ ret' = NoRet
  /\ flush' = NoFlush
  /\ UNCHANGED <<variant, buffer, mutex, notifyClosed, quit, err, waiters,
                 errors, pc, cur, ncalls, sizeF, errF, pcC, closeRet,
                 sinkClosed, fl, inbuf, carried, okFlushed, nsent, resent,
                 sinkSeen, nSink, nbytes, slept, windowOpen, owed>>

\* if w.bufferSize() < w.maxSize { time.Sleep(w.timeout) }
SleepNeeded_Le(size) == size <= MaxSize
SleepNeeded(size) == size < MaxSize

\* bufferSize() reads len(w.buffer) under the mutex.
WriterFlusher_Check ==
  /\ Alive /\ variant = "B"
  /\ pcF = "check" /\ mutex = Free
  /\ sizeF' = BufLen(buffer)
  /\ IF SleepNeeded(BufLen(buffer))
       THEN pcF' = "sleep" /\ UNCHANGED windowOpen
       ELSE pcF' = "lock" /\ windowOpen' = FALSE
  /\ ret' = NoRet
  /\ flush' = NoFlush
  /\ UNCHANGED <<variant, buffer, mutex, notify, notifyClosed, quit, err,
                 waiters, errors, pc, cur, ncalls, errF, pcC, closeRet,
                 sinkClosed, fl, inbuf, carried, okFlushed, nsent, resent,
                 sinkSeen, nSink, nbytes, slept, owed>>

\* time.Sleep(w.timeout) returns.
WriterFlusher_Sleep ==
  /\ Alive /\ variant = "B"
  /\ pcF = "sleep"
  /\ slept' = TRUE
  /\ windowOpen' = FALSE
  /\ pcF' = "lock"
  /\ ret' = NoRet
  /\ flush' = NoFlush
  /\ UNCHANGED <<variant, buffer, mutex, notify, notifyClosed, quit, err,
                 waiters, errors, pc, cur, ncalls, sizeF, errF, pcC,
                 closeRet, sinkClosed, fl, inbuf, carried, okFlushed,
                 nsent, resent, sinkSeen, nSink, nbytes, owed>>

\* w.mutex.Lock(); if len(w.buffer) > 0 { n, err = w.writer.Write(w.buffer) }
\* With an empty buffer n = 0 and err = nil: the last branch runs
\* (w.buffer = w.buffer[0:0]) and the mutex is released again.
WriterFlusher_Lock ==
  /\ Alive /\ variant = "B"
  /\ pcF = "lock" /\ mutex = Free
  /\ IF Len(buffer) > 0
       THEN /\ mutex' = F
            /\ SinkCall(F)
            /\ pcF' = "writing"
       ELSE /\ pcF' = "broadcast"
            /\ UNCHANGED <<mutex, fl, carried, nSink, resent, nsent>>
  /\ ret' = NoRet
  /\ flush' = NoFlush
  /\ UNCHANGED <<variant, buffer, notify, notifyClosed, quit, err, waiters,
                 errors, pc, cur, ncalls, sizeF, errF, pcC, closeRet,
                 sinkClosed, inbuf, okFlushed, sinkSeen, nbytes, slept,
                 windowOpen, owed>>

\* What the flusher makes of the sink's result o, with len = len(w.buffer):
\*   if err != nil { w.err = err }
\*   else if n < len(w.buffer) { w.err = ErrShortWrite }
\*   else { w.buffer = w.buffer[0:0] }
FlusherErr_Lost(o, len, old) == old
FlusherErr(o, len, old) ==
  IF o.e # Nil THEN o.e ELSE IF o.n < len THEN ErrShortWrite ELSE old

FlusherClears(o, len) == o.e = Nil /\ ~(o.n < len)

\* w.writer.Write returns; the result is classified; w.mutex.Unlock()
WriterFlusher_WriteDone ==
  /\ Alive /\ variant = "B"
  /\ pcF = "writing"
  /\ \E o \in SinkOutcomes(BufLen(fl[F])) :
       LET len == BufLen(buffer)
       IN /\ err' = FlusherErr(o, len, err)
          /\ SinkReturn(F, o, FlusherErr(o, len, Nil),
                        FlusherClears(o, len), {})
  /\ mutex' = Free
  /\ pcF' = "broadcast"
  /\ ret' = NoRet
  /\ UNCHANGED <<variant, notify, notifyClosed, quit, waiters, errors, pc,
                 cur, ncalls, sizeF, errF, pcC, closeRet, sinkClosed,
                 resent, nSink, nbytes, slept, windowOpen, owed>>

\* w.condM.Lock(); w.cond.Broadcast(); w.condM.Unlock()
Woken_One(ws) == IF ws = {} THEN {} ELSE {CHOOSE w \in ws : TRUE}
Woken(ws) == ws

WriterFlusher_Broadcast ==
  /\ Alive /\ variant = "B"
  /\ pcF = "broadcast"
  /\ pc' = [w \in Calls |->
              IF w \in Woken(waiters) THEN "woken" ELSE pc[w]]
  /\ waiters' = waiters \ Woken(waiters)
  /\ sizeF' = 0
  /\ slept' = FALSE
  /\ pcF' = "select"
  /\ ret' = NoRet
  /\ flush' = NoFlush
  /\ UNCHANGED <<variant, buffer, mutex, notify, notifyClosed, quit, err,
                 errors, cur, ncalls, errF, pcC, closeRet, sinkClosed, fl,
                 inbuf, carried, okFlushed, nsent, resent, sinkSeen, nSink,
                 nbytes, windowOpen, owed>>

\* =============================================== non-blocking coalescer
\* A receive from the single-slot error channel, case err := <-w.errors:
\* what is left in the slot.
Drain_Keep(slot) == slot
Drain(slot) == Nil

\* DeadlineBufWriter.Write, entry:
\*   select { case err := <-w.errors: return 0, err; default: }
DeadlineWrite_Call(w, s) ==
  /\ variant = "D"
  /\ CanCall(w)
  /\ ncalls' = ncalls + 1
  /\ IF errors # Nil
       THEN /\ errors' = Drain(errors)
            /\ nbytes' = MaxSize
            /\ ret' = [NoRet EXCEPT !.done = TRUE, !.id = w, !.s = s,
                                    !.e = errors]
            /\ owed' = owed \ {w}
            /\ UNCHANGED <<pc, cur>>
       ELSE /\ pc' = [pc EXCEPT ![w] = "dappend"]
            /\ cur' = [cur EXCEPT ![w] = [s |-> s, seen |-> 0]]
            /\ ret' = NoRet
            /\ UNCHANGED <<errors, nbytes, owed>>
  /\ flush' = NoFlush
  /\ UNCHANGED <<variant, buffer, mutex, notify, notifyClosed, quit, err,
                 waiters, pcF, sizeF, errF, pcC, closeRet, sinkClosed, fl,
                 inbuf, carried, okFlushed, nsent, resent, sinkSeen, nSink,
                 slept, windowOpen>>

\* w.mutex.Lock(); w.buffer = append(w.buffer, p...)
DeadlineWrite_Append(w) ==
  /\ Alive /\ variant = "D"
  /\ pc[w] = "dappend" /\ mutex = Free
  /\ mutex' = w
  /\ AppendPayload(w, windowOpen /\ pcC = "idle")
  /\ pc' = [pc EXCEPT ![w] = "dcheck"]
  /\ ret' = NoRet
  /\ flush' = NoFlush
  /\ UNCHANGED <<variant, notify, notifyClosed, quit, err, waiters, errors,
                 cur, ncalls, pcF, sizeF, errF, pcC, closeRet, sinkClosed,
                 fl, carried, okFlushed, nsent, resent, sinkSeen, nSink,
                 slept, windowOpen, owed>>

\* if len(w.buffer) > w.maxSize { err = w.flushLocked() } else { select ... }
InlineFlush_Ge(len) == len >= MaxSize
InlineFlush(len) == len > MaxSize

\* The threshold test.  Above the threshold flushLocked is entered and calls
\* the sink (the buffer is not empty there); otherwise the trigger is sent,
\* which panics on a closed channel, the mutex released and (len(p), nil)
\* returned.
DeadlineWrite_Check(w) ==
  /\ Alive /\ variant = "D"
  /\ pc[w] = "dcheck" /\ mutex = w
  /\ LET len == BufLen(buffer)
     IN IF InlineFlush(len)
          THEN /\ SinkCall(w)
               /\ cur' = [cur EXCEPT ![w].seen = len]
               /\ pc' = [pc EXCEPT ![w] = "dflush"]
               /\ ret' = NoRet
               /\ UNCHANGED <<notify, mutex, okFlushed, inbuf, owed>>
          ELSE IF notifyClosed
          THEN /\ pc' = [pc EXCEPT ![w] = "panic"]
               /\ ret' = NoRet
               /\ UNCHANGED <<notify, mutex, okFlushed, inbuf, carried, cur,
                              fl, nSink, resent, nsent, owed>>
          ELSE /\ notify' = TrySend(notify)
               /\ mutex' = Free
               /\ ret' = Returned(w, Nil, w \in okFlushed, FALSE, len)
               /\ Forget(w)
               /\ cur' = [cur EXCEPT ![w] = NoCall]
               /\ pc' = [pc EXCEPT ![w] = "idle"]
               /\ owed' = (owed \ {w}) \cup
                             (IF pcC = "idle" /\ Active = {w}
                                THEN {ncalls + 1} ELSE {})
               /\ UNCHANGED <<fl, nSink, resent, nsent>>
  /\ flush' = NoFlush
  /\ UNCHANGED <<variant, buffer, notifyClosed, quit, err, waiters, errors,
                 ncalls, pcF, sizeF, errF, pcC, closeRet, sinkClosed,
                 sinkSeen, nbytes, slept, windowOpen>>

\* flushLocked, after the sink returned o, with len = len(w.buffer):
\*   if n != len(w.buffer) { err = ErrShortWrite }; return err
FlushLockedErr(o, len) == IF o.n # len THEN ErrShortWrite ELSE o.e

\* w.buffer = w.buffer[0:0], whatever the sink returned.
FlushLockedClears(o, len) == TRUE

\* The inline flush returns; w.mutex.Unlock(); return.
DeadlineWrite_FlushDone(w) ==
  /\ Alive /\ variant = "D"
  /\ pc[w] = "dflush"
  /\ \E o \in SinkOutcomes(BufLen(fl[w])) :
       LET len == BufLen(buffer)
           e == FlushLockedErr(o, len)
       IN /\ SinkReturn(w, o, e, FlushLockedClears(o, len), {w})
          /\ ret' = Returned(w, e, w \in OkFlushedAfter(w, o), TRUE,
                             cur[w].seen)
  /\ cur' = [cur EXCEPT ![w] = NoCall]
  /\ mutex' = Free
  /\ pc' = [pc EXCEPT ![w] = "idle"]
  /\ owed' = owed \ {w}
  /\ UNCHANGED <<variant, notify, notifyClosed, quit, err, waiters, errors,
                 ncalls, pcF, sizeF, errF, pcC, closeRet, sinkClosed,
                 resent, nSink, nbytes, slept, windowOpen>>

\* DeadlineBufWriter.flusher: for _ = range w.notify { ... }
DeadlineFlusher_Recv ==
  /\ Alive /\ variant = "D"
  /\ pcF = "select" /\ notify = 1
  /\ notify' = 0
  /\ pcF' = "sleep"
  /\ ret' = NoRet
  /\ flush' = NoFlush
  /\ UNCHANGED <<variant, buffer, mutex, notifyClosed, quit, err, waiters,
                 errors, pc, cur, ncalls, sizeF, errF, pcC, closeRet,
                 sinkClosed, fl, inbuf, carried, okFlushed, nsent, resent,
                 sinkSeen, nSink, nbytes, slept, windowOpen, owed>>

\* The range loop ends when the channel is closed and drained.
DeadlineFlusher_Exit ==
  /\ Alive /\ variant = "D"
  /\ pcF = "select" /\ notify = 0 /\ notifyClosed
  /\ pcF' = "exit"
  /\ ret' = NoRet
  /\ flush' = NoFlush
  /\ UNCHANGED <<variant, buffer, mutex, notify, notifyClosed, quit, err,
                 waiters, errors, pc, cur, ncalls, sizeF, errF, pcC,
                 closeRet, sinkClosed, fl, inbuf, carried, okFlushed,
                 nsent, resent, sinkSeen, nSink, nbytes, slept, windowOpen,
                 owed>>

\* time.Sleep(w.timeout) returns.
DeadlineFlusher_Sleep ==
  /\ Alive /\ variant = "D"
  /\ pcF = "sleep"
  /\ windowOpen' = FALSE
  /\ pcF' = "lock"
  /\ ret' = NoRet
  /\ flush' = NoFlush
  /\ UNCHANGED <<variant, buffer, mutex, notify, notifyClosed, quit, err,
                 waiters, errors, pc, cur, ncalls, sizeF, errF, pcC,
                 closeRet, sinkClosed, fl, inbuf, carried, okFlushed,
                 nsent, resent, sinkSeen, nSink, nbytes, slept, owed>>

\* w.mutex.Lock(); err := w.flushLocked() up to the sink call; with an
\* empty buffer flushLocked returns nil and the mutex is released.
DeadlineFlusher_Lock ==
  /\ Alive /\ variant = "D"
  /\ pcF = "lock" /\ mutex = Free
  /\ IF buffer = <<>>
       THEN /\ pcF' = "select"
            /\ UNCHANGED <<mutex, fl, carried, nSink, resent, nsent>>
       ELSE /\ mutex' = F
            /\ SinkCall(F)
            /\ pcF' = "writing"
  /\ ret' = NoRet
  /\ flush' = NoFlush
  /\ UNCHANGED <<variant, buffer, notify, notifyClosed, quit, err, waiters,
                 errors, pc, cur, ncalls, sizeF, errF, pcC, closeRet,
                 sinkClosed, inbuf, okFlushed, sinkSeen, nbytes, slept,
                 windowOpen, owed>>

\* flushLocked returns; w.mutex.Unlock(); if err != nil { w.errors <- err }
DeadlineFlusher_FlushDone ==
  /\ Alive /\ variant = "D"
  /\ pcF = "writing"
  /\ \E o \in SinkOutcomes(BufLen(fl[F])) :
       LET len == BufLen(buffer)
           e == FlushLockedErr(o, len)
       IN /\ SinkReturn(F, o, e, FlushLockedClears(o, len), {})
          /\ errF' = e
          /\ pcF' = IF e # Nil THEN "senderr" ELSE "select"
  /\ mutex' = Free
  /\ ret' = NoRet
  /\ UNCHANGED <<variant, notify, notifyClosed, quit, err, waiters, errors,
                 pc, cur, ncalls, sizeF, pcC, closeRet, sinkClosed, resent,
                 nSink, nbytes, slept, windowOpen, owed>>

\* w.errors <- err, a plain send on a channel of capacity 1: it proceeds
\* when the slot is empty and blocks while it is occupied.
ErrorsSendReady(slot) == slot = Nil

DeadlineFlusher_SendErr ==
  /\ Alive /\ variant = "D"
  /\ pcF = "senderr" /\ ErrorsSendReady(errors)
  /\ errors' = errF
  /\ errF' = Nil
  /\ pcF' = "select"
  /\ ret' = NoRet
  /\ flush' = NoFlush
  /\ UNCHANGED <<variant, buffer, mutex, notify, notifyClosed, quit, err,
                 waiters, pc, cur, ncalls, sizeF, pcC, closeRet,
                 sinkClosed, fl, inbuf, carried, okFlushed, nsent, resent,
                 sinkSeen, nSink, nbytes, slept, windowOpen, owed>>

\* DeadlineBufWriter.Close:
\*   select { case err := <-w.errors: return err; default: }
DeadlineClose_Drain ==
  /\ Alive /\ variant = "D"
  /\ pcC = "idle"
  /\ IF errors # Nil
       THEN /\ errors' = Drain(errors)
            /\ closeRet' = errors
            /\ pcC' = "closed"
       ELSE /\ pcC' = "cflush"
            /\ UNCHANGED <<errors, closeRet>>
  /\ owed' = IF (ncalls + 1) \in owed
               THEN (owed \ {ncalls + 1}) \cup {0}
               ELSE owed
  /\ ret' = NoRet
  /\ flush' = NoFlush
  /\ UNCHANGED <<variant, buffer, mutex, notify, notifyClosed, quit, err,
                 waiters, pc, cur, ncalls, pcF, sizeF, errF, sinkClosed,
                 fl, inbuf, carried, okFlushed, nsent, resent, sinkSeen,
                 nSink, nbytes, slept, windowOpen>>

\* w.flushLocked(), called without the mutex: emptiness test, sink call.
DeadlineClose_FlushStart ==
  /\ Alive /\ variant = "D"
  /\ pcC = "cflush"
  /\ IF buffer = <<>>
       THEN /\ pcC' = "closenotify"
            /\ UNCHANGED <<fl, carried, nSink, resent, nsent>>
       ELSE /\ SinkCall(C)
            /\ pcC' = "cwriting"
  /\ ret' = NoRet
  /\ flush' = NoFlush
  /\ UNCHANGED <<variant, buffer, mutex, notify, notifyClosed, quit, err,
                 waiters, errors, pc, cur, ncalls, pcF, sizeF, errF,
                 closeRet, sinkClosed, inbuf, okFlushed, sinkSeen, nbytes,
                 slept, windowOpen, owed>>

\* flushLocked returns: if err != nil { return err }
DeadlineClose_FlushDone ==
  /\ Alive /\ variant = "D"
  /\ pcC = "cwriting"
  /\ \E o \in SinkOutcomes(BufLen(fl[C])) :
       LET len == BufLen(buffer)
           e == FlushLockedErr(o, len)
       IN /\ SinkReturn(C, o, e, FlushLockedClears(o, len), {})
          /\ IF e # Nil
               THEN closeRet' = e /\ pcC' = "closed"
               ELSE pcC' = "closenotify" /\ UNCHANGED closeRet
  /\ ret' = NoRet
  /\ UNCHANGED <<variant, mutex, notify, notifyClosed, quit, err, waiters,
                 errors, pc, cur, ncalls, pcF, sizeF, errF, sinkClosed,
                 resent, nSink, nbytes, slept, windowOpen, owed>>

\* close(w.notify), then wc.Close() on the sink, whose result Close returns.
DeadlineClose_CloseNotify ==
  /\ Alive /\ variant = "D"
  /\ pcC = "closenotify"
  /\ notifyClosed' = TRUE
  /\ sinkClosed' = TRUE
  /\ closeRet' \in SinkCloseOutcomes
  /\ pcC' = "closed"
  /\ ret' = NoRet
  /\ flush' = NoFlush
  /\ UNCHANGED <<variant, buffer, mutex, notify, quit, err, waiters,
                 errors, pc, cur, ncalls, pcF, sizeF, errF, fl, inbuf,
                 carried, okFlushed, nsent, resent, sinkSeen, nSink,
                 nbytes, slept, windowOpen, owed>>

Next ==
  \/ \E w \in Calls, s \in Sizes : WriterWrite_Call(w, s)
  \/ \E w \in Calls : WriterWrite_Append(w)
  \/ \E w \in Calls : WriterWrite_Wait(w)
  \/ \E w \in Calls : WriterWrite_Return(w)
  \/ WriterClose
  \/ WriterFlusher_Quit
  \/ WriterFlusher_Recv
  \/ WriterFlusher_Check
  \/ WriterFlusher_Sleep
  \/ WriterFlusher_Lock
  \/ WriterFlusher_WriteDone
  \/ WriterFlusher_Broadcast
  \/ \E w \in Calls, s \in Sizes : DeadlineWrite_Call(w, s)
  \/ \E w \in Calls : DeadlineWrite_Append(w)
  \/ \E w \in Calls : DeadlineWrite_Check(w)
  \/ \E w \in Calls : DeadlineWrite_FlushDone(w)
  \/ DeadlineFlusher_Recv
  \/ DeadlineFlusher_Exit
  \/ DeadlineFlusher_Sleep
  \/ DeadlineFlusher_Lock
  \/ DeadlineFlusher_FlushDone
  \/ DeadlineFlusher_SendErr
  \/ DeadlineClose_Drain
  \/ DeadlineClose_FlushStart
  \/ DeadlineClose_FlushDone
  \/ DeadlineClose_CloseNotify

Spec == Init /\ [][Next]_vars

\* The goroutines are scheduled fairly: a Write call that has been entered
\* keeps taking its steps, and so does the flusher; a sink call and the
\* coalescing sleep return.  Entering Write or Close is up to the callers.
WriterStep(w) ==
  \/ WriterWrite_Append(w)
  \/ WriterWrite_Wait(w)
  \/ WriterWrite_Return(w)

WriterFlusherStep ==
  \/ WriterFlusher_Quit
  \/ WriterFlusher_Recv
  \/ WriterFlusher_Check
  \/ WriterFlusher_Sleep
  \/ WriterFlusher_Lock
  \/ WriterFlusher_WriteDone
  \/ WriterFlusher_Broadcast

Fairness ==
  /\ \A w \in Calls : WF_vars(WriterStep(w))
  /\ WF_vars(WriterFlusherStep)

\* The blocking coalescer on which Close is never called.
InitB == Init /\ variant = "B"

NextB ==
  \/ \E w \in Calls, s \in Sizes : WriterWrite_Call(w, s)
  \/ \E w \in Calls : WriterWrite_Append(w)
  \/ \E w \in Calls : WriterWrite_Wait(w)
  \/ \E w \in Calls : WriterWrite_Return(w)
  \/ WriterFlusher_Recv
  \/ WriterFlusher_Check
  \/ WriterFlusher_Sleep
  \/ WriterFlusher_Lock
  \/ WriterFlusher_WriteDone
  \/ WriterFlusher_Broadcast

LiveSpecB == InitB /\ [][NextB]_vars /\ Fairness

\* Either coalescer, with Close: the goroutines of the non-blocking
\* coalescer are scheduled fairly too, and a Close that has been entered
\* keeps taking its steps.
DeadlineWriteStep(w) ==
  \/ DeadlineWrite_Append(w)
  \/ DeadlineWrite_Check(w)
  \/ DeadlineWrite_FlushDone(w)

DeadlineFlusherStep ==
  \/ DeadlineFlusher_Recv
  \/ DeadlineFlusher_Exit
  \/ DeadlineFlusher_Sleep
  \/ DeadlineFlusher_Lock
  \/ DeadlineFlusher_FlushDone
  \/ DeadlineFlusher_SendErr

DeadlineCloseStep ==
  \/ DeadlineClose_FlushStart
  \/ DeadlineClose_FlushDone
  \/ DeadlineClose_CloseNotify

FairnessClose ==
  /\ Fairness
  /\ \A w \in Calls : WF_vars(DeadlineWriteStep(w))
  /\ WF_vars(DeadlineFlusherStep)
  /\ WF_vars(DeadlineCloseStep)

LiveSpec == Init /\ [][Next]_vars /\ FairnessClose

\* Either coalescer on which Close is never called.
NextOpen ==
  \/ NextB
  \/ \E w \in Calls, s \in Sizes : DeadlineWrite_Call(w, s)
  \/ \E w \in Calls : DeadlineWrite_Append(w)
  \/ \E w \in Calls : DeadlineWrite_Check(w)
  \/ \E w \in Calls : DeadlineWrite_FlushDone(w)
  \/ DeadlineFlusher_Recv
  \/ DeadlineFlusher_Sleep
  \/ DeadlineFlusher_Lock
  \/ DeadlineFlusher_FlushDone
  \/ DeadlineFlusher_SendErr

LiveSpecOpen == Init /\ [][NextOpen]_vars /\ FairnessClose

\* ================================================================ claims
InFlight == {p \in Procs : fl[p] # <<>>}

\* C1: a Write of the blocking coalescer returns (len(p), nil) only if its
\* bytes were part of a sink write that had completed successfully when it
\* returned.
C1_NeverAcknowledgedUnflushed ==
  (variant = "B" /\ ret.done /\ ret.e = Nil) => ret.flushed

\* C2: when all Writes so far fell into the first coalescing window (on the
\* non-blocking variant, before Close) and their sizes sum to less than
\* MaxSize (nbytes < MaxSize says both), the sink has received at most one
\* Write call, and that call carried every byte appended.
C2_OneSinkWrite ==
  nbytes < MaxSize =>
     /\ nSink <= 1
     /\ nSink = 1 => \A p \in InFlight : BufLen(fl[p]) = nbytes

C5_EveryWriteReturns == (Active # {}) ~> (Active = {})

\* Two calls were carried by the one sink write there was, which emptied
\* the buffer, and both callers, which had parked, have returned.
C5_Witness ==
  /\ variant = "B" /\ ncalls = 2 /\ nSink = 1 /\ notify = 0
  /\ nbytes = 2 /\ buffer = <<>>
  /\ ret.done /\ ret.flushed /\ ret.e = Nil
  /\ \A w \in Calls : pc[w] = "idle"

\* C6: in the blocking coalescer, as long as every sink write has returned
\* an error, every Write that has returned returned (0, the sink's error).
C6_ErrorForwarded ==
  (variant = "B" /\ sinkSeen \subseteq {"err"} /\ ret.done) =>
     ret.n = 0 /\ ret.e = SinkErr

\* A small and a large Write have both returned after failing sink writes,
\* the large one last.
C6_Witness ==
  /\ variant = "B" /\ sinkSeen = {"err"} /\ ncalls = 2
  /\ \A w \in Calls : pc[w] = "idle"
  /\ ret.done /\ ret.s >= MaxSize /\ ret.e = SinkErr
  /\ \E i \in 1..Len(buffer) : buffer[i] < MaxSize

\* C7: a blocking Write whose bytes were carried by a flush that succeeded
\* returns (len(p), nil), also after an earlier flush failed.
C7_ErrorScopedToFlush ==
  (variant = "B" /\ ret.done /\ ret.flushed) =>
     ret.e = Nil /\ ret.n = ret.s

FlushFailed(p) ==
  /\ fl[p] # <<>> /\ fl'[p] = <<>>
  /\ flush'.e # Nil \/ flush'.n < BufLen(fl[p])

FlushSucceeded(p) ==
  /\ fl[p] # <<>> /\ fl'[p] = <<>>
  /\ flush'.e = Nil /\ flush'.n = BufLen(fl[p])

\* C8: a flush that ends in a sink error or a short write leaves the buffer
\* empty.
C8_ClearedOnFailedFlush ==
  [][\A p \in Procs : FlushFailed(p) => buffer' = <<>>]_vars

\* C9: a successful flush leaves the buffer empty, and no payload is passed
\* to the sink in more than one sink Write call.
C9_BufferIntegrity ==
  /\ [][\A p \in Procs : FlushSucceeded(p) => buffer' = <<>>]_vars
  /\ [](~resent)

\* C10: in the non-blocking coalescer a flush reports the sink's own error
\* whenever the sink returned one, and ErrShortWrite only when the sink
\* returned no error.
C10_SinkErrorVerbatim ==
  (variant = "D" /\ flush.p # Free) =>
     /\ flush.e # Nil => flush.ret = flush.e
     /\ flush.ret = ErrShortWrite => flush.e = Nil

\* C11: a non-blocking Write entered while an error is queued returns
\* (0, that error) and leaves the buffer, the trigger channel and the calls
\* in progress as they were; a queued error leaves the slot empty and goes to
\* exactly one caller, a Write or a Close.
C11_QueuedErrorOnWrite ==
  [][(variant = "D" /\ errors # Nil) =>
       /\ ncalls' # ncalls =>
            /\ ret'.done /\ ret'.n = 0 /\ ret'.e = errors
            /\ errors' = Nil
            /\ buffer' = buffer /\ notify' = notify /\ pc' = pc
            /\ nSink' = nSink
       /\ errors' # errors =>
            LET toWrite == ret'.done /\ ret'.e = errors /\ pcC' = pcC
                toClose == /\ pcC = "idle" /\ pcC' = "closed"
                           /\ closeRet' = errors /\ ~ret'.done
            IN  errors' = Nil /\ (toWrite \/ toClose) /\ ~(toWrite /\ toClose)
    ]_vars

\* A Write has just been refused with the queued error while the buffer
\* held the bytes of an earlier Write.
C11_Witness ==
  /\ variant = "D" /\ errors = Nil
  /\ ret.done /\ ret.e # Nil /\ ret.n = 0 /\ ~ret.inline /\ ret.seen = 0
  /\ nSink >= 1

\* C12: in the non-blocking coalescer, as long as every sink write has
\* returned an error: a Write that does not push the buffer past MaxSize
\* returns (len(p), nil), and a Write that pushes it past MaxSize returns
\* (0, err), err non-nil, itself; and once the sink has failed, the
\* operation entered next after a Write returned (len(p), nil), another
\* Write or Close, returns a non-nil error (owed: where the caller makes
\* its calls one after the other; a Write that Close overlaps is left out).
C12_ErrorOnNextOperation ==
  [][variant = "D" =>
       /\ sinkSeen' \subseteq {"err"} =>
            /\ (ret'.done /\ ret'.seen > 0 /\ ~ret'.inline) =>
                 ret'.n = ret'.s /\ ret'.e = Nil
            /\ (ret'.done /\ ret'.inline) => ret'.n = 0 /\ ret'.e # Nil
       /\ sinkSeen' = {"err"} =>
            /\ (ret'.done /\ ret'.id \in owed /\ pcC = "idle") =>
                 ret'.e # Nil
            /\ (pcC # "closed" /\ pcC' = "closed" /\ 0 \in owed') =>
                 closeRet' # Nil
    ]_vars

\* C13: once Close has returned, whatever it returned, the flusher
\* goroutine eventually terminates (LiveSpec: fair scheduling, sink calls
\* return), unless a panic ends the program.
C13_CloseTerminatesWorker ==
  (pcC = "closed") ~> (pcF = "exit" \/ ~Alive)

\* C14: at most one sink Write is in flight at any time, and a process that
\* has passed the buffer to the sink, and will truncate it, holds the buffer
\* mutex; so does Close in its final flush.
C14_FlushMutualExclusion ==
  /\ Cardinality(InFlight) <= 1
  /\ \A p \in InFlight : mutex = p
  /\ pcC = "cwriting" => mutex = C

\* C15: as long as every sink write has succeeded, no payload is passed to
\* the sink a second time; while a sink write is in flight the buffer is the
\* slice that was passed (nothing is appended behind the flush); and the
\* flush then empties a buffer all of whose payloads it has passed, so that
\* no payload is lost and the sink receives the payloads in append order.
C15_FlushOrdering ==
  [][sinkSeen' \subseteq {"ok"} =>
       /\ ~resent'
       /\ \A p \in Procs : fl'[p] # <<>> => buffer' = fl'[p]
       /\ \A p \in Procs :
            (fl[p] # <<>> /\ fl'[p] = <<>>) =>
               buffer = fl[p] /\ nsent = Len(buffer) /\ buffer' = <<>>
    ]_vars

\* C16: the flusher of the non-blocking coalescer is never stuck
\* on the error channel: having a flush error to report, it can always take
\* its next step, whether the slot is free or not.
C16_ErrorPushNeverBlocks ==
  (variant = "D" /\ Alive /\ pcF = "senderr") => ENABLED DeadlineFlusher_SendErr

\* C17: once Close has closed the quit channel, the flusher of the blocking
\* coalescer does not start a new cycle: at its select it never receives a
\* trigger, also when one is pending, and its only step from there is to
\* return.
C17_NoCycleAfterShutdown ==
  [][(variant = "B" /\ quit /\ pcF = "select") => pcF' \in {"select", "exit"}]_vars

\* C18: on a coalescer on which Close is never called (LiveSpecOpen), the
\* buffer is never non-empty with no trigger pending, the flusher waiting
\* for a trigger and no Write between its append and its signal; and every
\* payload in the buffer is eventually passed to the sink.
C18_EventuallyFlushed ==
  /\ [](buffer # <<>> =>
          \/ notify = 1
          \/ pcF # "select"
          \/ \E w \in Calls : pc[w] \in {"signal", "dcheck", "dflush"})
  /\ (nsent < Len(buffer)) ~> (nsent = Len(buffer))

\* C19: no sink Write is entered once the sink's Close has been called,
\* and the sink's Close is not called while a sink Write of the flusher is
\* in flight.
C19_NoWriteAfterSinkClose ==
  [][(sinkClosed => nSink' = nSink)
       /\ ((~sinkClosed /\ sinkClosed') => fl[F] = <<>>)]_vars

\* The errors of failed flushes that no caller has been given: the one in
\* the slot and the one the flusher is about to send.
UnreportedErrors == {errors, errF} \ {Nil}

\* C20: once the non-blocking Close has returned nil, no flush error is
\* queued or held by the flusher, no flush of the flusher fails from then
\* on, and the buffer is empty (as far as no Write appended after Close was
\* entered, which nbytes < MaxSize implies).
C20_NoLostFailureOnClose ==
  /\ [](variant = "D" /\ pcC = "closed" /\ closeRet = Nil /\ Alive =>
          /\ UnreportedErrors = {}
          /\ nbytes < MaxSize => buffer = <<>>)
  /\ [][(variant = "D" /\ pcC = "closed" /\ closeRet = Nil) =>
          (flush'.p = F => flush'.ret = Nil)]_vars
====
